---- MODULE Spec2Model ----
(***************************************************************************)
(* A model of trunk/lib/checkstring.cpp (TscanCode): the seven string      *)
(* checks of class CheckString over a token list, its AST links, the       *)
(* function scopes and the variable facts of the symbol database.          *)
(*                                                                         *)
(* A std::string is a sequence of one-character strings.  A token pointer  *)
(* is an index into `tokens`; the null pointer is 0.                       *)
(***************************************************************************)
EXTENDS Integers, Sequences, FiniteSets

VARIABLES
    tokens,          \* the token list (_tokenizer->tokens()), read only
    functionScopes,  \* symbolDatabase->functionScopes: [classStart, classEnd]
    variables,       \* varId -> facts of the Variable
    settings,        \* [warning: _settings->isEnabled("warning"), isC: _tokenizer->isC()]
    check,           \* the check that has run ("none" before any)
    reported,        \* what that check handed to reportError, in order
    nullDeref        \* a check read through a null Token pointer

vars == <<tokens, functionScopes, variables, settings, check, reported, nullDeref>>

-----------------------------------------------------------------------------
(* Bounds of the model.                                                    *)

MaxGap == 2        \* tokens between two items of a compare list
MaxStrLen == 17    \* longest literal value given to the message builders
MaxArgs == 3       \* arguments after the destination of a sprintf call
MaxNum == 3        \* largest length argument of a substr call

-----------------------------------------------------------------------------
(* Lexemes.                                                                *)

s_sprintf == <<"s","p","r","i","n","t","f">>
s_snprintf == <<"s","n","p","r","i","n","t","f">>
s_swprintf == <<"s","w","p","r","i","n","t","f">>
s_printf == <<"p","r","i","n","t","f">>
s_substr == <<"s","u","b","s","t","r">>
s_assert == <<"a","s","s","e","r","t">>
s_ASSERT == <<"A","S","S","E","R","T">>
s_QString == <<"Q","S","t","r","i","n","g">>
s_compare == <<"c","o","m","p","a","r","e">>
s_c_str == <<"c","_","s","t","r">>
s_void == <<"v","o","i","d">>
s_char == <<"c","h","a","r">>
s_int == <<"i","n","t">>
s_if == <<"i","f">>
s_while == <<"w","h","i","l","e">>
s_foo == <<"f","o","o">>
s_strcmp == <<"s","t","r","c","m","p">>
s_strncmp == <<"s","t","r","n","c","m","p">>
s_eq == <<"=","=">>
s_ne == <<"!","=">>
s_andand == <<"&","&">>
s_oror == <<"|","|">>
s_coloncolon == <<":",":">>
s_nullchar == <<"'","\\","0","'">>
s_dotdot == <<".",".">>

\* The function names of the pattern at line 84.
CompareFunctions == {
    <<"m","e","m","c","m","p">>, <<"s","t","r","n","c","m","p">>,
    <<"s","t","r","c","m","p">>, <<"s","t","r","i","c","m","p">>,
    <<"s","t","r","v","e","r","s","c","m","p">>, <<"b","c","m","p">>,
    <<"s","t","r","c","m","p","i">>, <<"s","t","r","c","a","s","e","c","m","p">>,
    <<"s","t","r","n","c","a","s","e","c","m","p">>, <<"s","t","r","n","c","a","s","e","c","m","p","_","l">>,
    <<"s","t","r","c","a","s","e","c","m","p","_","l">>, <<"w","c","s","n","c","a","s","e","c","m","p">>,
    <<"w","c","s","c","a","s","e","c","m","p">>, <<"w","m","e","m","c","m","p">>,
    <<"w","c","s","c","m","p">>, <<"w","c","s","c","a","s","e","c","m","p","_","l">>,
    <<"w","c","s","n","c","a","s","e","c","m","p","_","l">>, <<"w","c","s","n","c","m","p">>,
    <<"_","m","b","s","c","m","p">>, <<"_","m","e","m","i","c","m","p">>,
    <<"_","m","e","m","i","c","m","p","_","l">>, <<"_","s","t","r","i","c","m","p">>,
    <<"_","w","c","s","i","c","m","p">>, <<"_","m","b","s","i","c","m","p">>,
    <<"_","s","t","r","i","c","m","p","_","l">>, <<"_","w","c","s","i","c","m","p","_","l">>,
    <<"_","m","b","s","i","c","m","p","_","l">> }

-----------------------------------------------------------------------------
(* Token accessors (class Token).  Every accessor is defined on the null   *)
(* pointer the way the detectors rely on: Token::Match on a null token     *)
(* fails, strAt off the list is the empty string.                          *)

NameTypes == {"eVariable", "eName", "eType", "eFunction", "eKeyword", "eBoolean"}

Min(a, b) == IF a < b THEN a ELSE b

TokNext(tok) == IF tok = 0 \/ tok >= Len(tokens) THEN 0 ELSE tok + 1

TokPrev(tok) == IF tok <= 1 THEN 0 ELSE tok - 1

\* tok->tokAt(k): k tokens forward (k > 0) or backward (k < 0), null off the list
TokAt(tok, k) ==
    IF tok = 0 \/ tok + k < 1 \/ tok + k > Len(tokens) THEN 0 ELSE tok + k

Str(tok) == IF tok = 0 THEN <<>> ELSE tokens[tok].str

StrAt(tok, k) == Str(TokAt(tok, k))

StrIs(tok, s) == tok # 0 /\ tokens[tok].str = s

TokType(tok) == IF tok = 0 THEN "eNone" ELSE tokens[tok].tokType

Link(tok) == IF tok = 0 THEN 0 ELSE tokens[tok].link

LinkAt(tok, k) == Link(TokAt(tok, k))

AstOperand1(tok) == IF tok = 0 THEN 0 ELSE tokens[tok].astOperand1

AstOperand2(tok) == IF tok = 0 THEN 0 ELSE tokens[tok].astOperand2

AstParent(tok) == IF tok = 0 THEN 0 ELSE tokens[tok].astParent

VarId(tok) == IF tok = 0 THEN 0 ELSE tokens[tok].varId

OriginalName(tok) == IF tok = 0 THEN <<>> ELSE tokens[tok].originalName

IsName(tok) == TokType(tok) \in NameTypes

\* %var%: a name with a variable id
IsVar(tok) == tok # 0 /\ tokens[tok].varId # 0

\* %str%
IsStr(tok) == TokType(tok) = "eString"

\* %num%
IsNum(tok) == TokType(tok) = "eNumber"

\* tok->variable(): null (FALSE here) when the token has no variable id
HasVariable(tok) == VarId(tok) # 0

Variable(tok) == variables[VarId(tok)]

\* Token::strValue(): the literal without its quotes
StrValue(str) == SubSeq(str, 2, Len(str) - 1)

\* Token::getStrLength(): the length of the literal's value
GetStrLength(tok) == Len(StrValue(Str(tok)))

\* std::string::substr(pos, n)
SubStr(s, pos, n) == SubSeq(s, pos + 1, Min(pos + n, Len(s)))

\* tok->getValueTokenMinStrSize(): the literal the pointer may point at, or null
GetValueTokenMinStrSize(tok) == IF tok = 0 THEN 0 ELSE tokens[tok].valueStr

\* The tokens of function scope sc that its loop visits: after classStart,
\* before classEnd.
InScope(sc, tok) == sc.classStart < tok /\ tok < sc.classEnd

InSomeScope(tok) ==
    \E k \in 1..Len(functionScopes) : InScope(functionScopes[k], tok)

-----------------------------------------------------------------------------
(* reportError: one finding.                                               *)

Finding(id, severity, tok, aux, string1, string2, verdict) ==
    [id |-> id, severity |-> severity, tok |-> tok, aux |-> aux,
     string1 |-> string1, string2 |-> string2, verdict |-> verdict]

-----------------------------------------------------------------------------
(* stringLiteralWrite (lines 35-72).                                       *)

\* lines 64-66: the literal as the message shows it
WriteDisplay(s) == IF Len(s) > 15 THEN SubStr(s, 0, 13) \o s_dotdot ELSE s

stringLiteralWriteError(tok, strValue) ==
    Finding("stringLiteralWrite", "error", tok, strValue,
            IF strValue # 0 THEN WriteDisplay(StrValue(Str(strValue))) ELSE <<>>,
            <<>>, "")

\* the body of the loop at line 41, for one token
StringLiteralWriteAt(tok) ==
    IF ~HasVariable(tok) \/ ~Variable(tok).isPointer THEN <<>>
    ELSE LET str == GetValueTokenMinStrSize(tok) IN
         IF str = 0 THEN <<>>
         ELSE IF /\ IsVar(tok)
                 /\ StrIs(TokAt(tok, 1), <<"[">>)
                 /\ StrIs(LinkAt(tok, 1), <<"]">>)
                 /\ StrIs(TokNext(LinkAt(tok, 1)), <<"=">>)
              THEN <<stringLiteralWriteError(tok, str)>>
         ELSE IF /\ StrIs(TokPrev(tok), <<"*">>)
                 /\ IsVar(tok)
                 /\ StrIs(TokAt(tok, 1), <<"=">>)
              THEN <<stringLiteralWriteError(tok, str)>>
         ELSE <<>>

RECURSIVE StringLiteralWriteScope(_, _)
StringLiteralWriteScope(tok, classEnd) ==
    IF tok = classEnd \/ tok = 0 THEN <<>>
    ELSE StringLiteralWriteAt(tok) \o StringLiteralWriteScope(TokNext(tok), classEnd)

RECURSIVE StringLiteralWriteFrom(_)
StringLiteralWriteFrom(i) ==
    IF i > Len(functionScopes) THEN <<>>
    ELSE StringLiteralWriteScope(TokNext(functionScopes[i].classStart),
                                 functionScopes[i].classEnd)
         \o StringLiteralWriteFrom(i + 1)

stringLiteralWrite ==
    /\ check = "none"
    /\ check' = "stringLiteralWrite"
    /\ reported' = StringLiteralWriteFrom(1)
    /\ UNCHANGED <<tokens, functionScopes, variables, settings, nullDeref>>

-----------------------------------------------------------------------------
(* checkAlwaysTrueOrFalseStringCompare (lines 78-137).                     *)

\* lines 121-123 with "<=" for "<"
CompareDisplayInclusive(str) ==
    IF Len(str) <= 10 THEN str ELSE SubStr(str, 0, 10 - 2) \o s_dotdot

\* lines 121-123: a compared string as the message shows it
CompareDisplay(str) ==
    IF Len(str) < 10 THEN str ELSE SubStr(str, 0, 10 - 2) \o s_dotdot

alwaysTrueFalseStringCompareError(tok, str1, str2) ==
    Finding("staticStringCompare", "warning", tok, 0,
            CompareDisplay(str1), CompareDisplay(str2),
            IF str1 = str2 THEN "identical" ELSE "unequal")

alwaysTrueStringVariableCompareError(tok, str1, str2) ==
    Finding("stringCompare", "warning", tok, 0, str1, str2, "identical")

\* ",|)"
IsCommaOrRPar(tok) == StrIs(tok, <<",">>) \/ StrIs(tok, <<")">>)

\* line 84: "memcmp|strncmp|...|_mbsicmp_l ("
MatchCompareCall(tok) ==
    IsName(tok) /\ Str(tok) \in CompareFunctions /\ StrIs(TokAt(tok, 1), <<"(">>)

\* line 85: "%str% , %str% ,|)"
MatchTwoLiterals(tok) ==
    /\ IsStr(tok)
    /\ StrIs(TokAt(tok, 1), <<",">>)
    /\ IsStr(TokAt(tok, 2))
    /\ IsCommaOrRPar(TokAt(tok, 3))

\* line 90: "%name% , %name% ,|)"
MatchTwoNames(tok) ==
    /\ IsName(tok)
    /\ StrIs(TokAt(tok, 1), <<",">>)
    /\ IsName(TokAt(tok, 2))
    /\ IsCommaOrRPar(TokAt(tok, 3))

\* line 96: "%name% . c_str ( ) , %name% . c_str ( ) ,|)"
MatchTwoCStr(tok) ==
    /\ IsName(tok)
    /\ StrIs(TokAt(tok, 1), <<".">>)
    /\ StrIs(TokAt(tok, 2), s_c_str)
    /\ StrIs(TokAt(tok, 3), <<"(">>)
    /\ StrIs(TokAt(tok, 4), <<")">>)
    /\ StrIs(TokAt(tok, 5), <<",">>)
    /\ IsName(TokAt(tok, 6))
    /\ StrIs(TokAt(tok, 7), <<".">>)
    /\ StrIs(TokAt(tok, 8), s_c_str)
    /\ StrIs(TokAt(tok, 9), <<"(">>)
    /\ StrIs(TokAt(tok, 10), <<")">>)
    /\ IsCommaOrRPar(TokAt(tok, 11))

\* line 103: "QString :: compare ( %str% , %str% )"
MatchQStringCompare(tok) ==
    /\ IsName(tok)
    /\ StrIs(tok, s_QString)
    /\ StrIs(TokAt(tok, 1), s_coloncolon)
    /\ StrIs(TokAt(tok, 2), s_compare)
    /\ StrIs(TokAt(tok, 3), <<"(">>)
    /\ IsStr(TokAt(tok, 4))
    /\ StrIs(TokAt(tok, 5), <<",">>)
    /\ IsStr(TokAt(tok, 6))
    /\ StrIs(TokAt(tok, 7), <<")">>)

\* line 108: "!!+ %str% ==|!= %str% !!+" (a "!!" atom matches past the end)
MatchLiteralCompare(tok) ==
    /\ tok # 0
    /\ ~StrIs(tok, <<"+">>)
    /\ IsStr(TokAt(tok, 1))
    /\ (StrIs(TokAt(tok, 2), s_eq) \/ StrIs(TokAt(tok, 2), s_ne))
    /\ IsStr(TokAt(tok, 3))
    /\ ~StrIs(TokAt(tok, 4), <<"+">>)

\* line 112: where the scan stands after a literal comparison matched at tok
LiteralCompareAdvance(tok) == TokAt(tok, 5)

\* the body of the loop at line 83 for one token: what it reports and where
\* it leaves tok
AlwaysTrueOrFalseAt(tok) ==
    IF MatchCompareCall(tok) THEN
        IF MatchTwoLiterals(TokAt(tok, 2)) THEN
            [errs |-> <<alwaysTrueFalseStringCompareError(tok, StrAt(tok, 2), StrAt(tok, 4))>>,
             tok |-> TokAt(tok, 5)]
        ELSE IF MatchTwoNames(TokAt(tok, 2)) THEN
            [errs |-> IF StrAt(tok, 2) = StrAt(tok, 4)
                      THEN <<alwaysTrueStringVariableCompareError(tok, StrAt(tok, 2), StrAt(tok, 4))>>
                      ELSE <<>>,
             tok |-> TokAt(tok, 5)]
        ELSE IF MatchTwoCStr(TokAt(tok, 2)) THEN
            [errs |-> IF StrAt(tok, 2) = StrAt(tok, 8)
                      THEN <<alwaysTrueStringVariableCompareError(tok, StrAt(tok, 2), StrAt(tok, 8))>>
                      ELSE <<>>,
             tok |-> TokAt(tok, 13)]
        ELSE [errs |-> <<>>, tok |-> tok]
    ELSE IF MatchQStringCompare(tok) THEN
        [errs |-> <<alwaysTrueFalseStringCompareError(tok, StrAt(tok, 4), StrAt(tok, 6))>>,
         tok |-> TokAt(tok, 7)]
    ELSE IF MatchLiteralCompare(tok) THEN
        [errs |-> <<alwaysTrueFalseStringCompareError(tok, StrAt(tok, 1), StrAt(tok, 3))>>,
         tok |-> LiteralCompareAdvance(tok)]
    ELSE [errs |-> <<>>, tok |-> tok]

\* the loop at lines 83-116, from tok to the end of the token list
RECURSIVE AlwaysTrueOrFalseScan(_)
AlwaysTrueOrFalseScan(tok) ==
    IF tok = 0 THEN <<>>
    ELSE LET r == AlwaysTrueOrFalseAt(tok) IN
         IF r.tok = 0 THEN r.errs
         ELSE r.errs \o AlwaysTrueOrFalseScan(TokNext(r.tok))

\* lines 80-81 and the loop
AlwaysTrueOrFalseFindings ==
    IF ~settings.warning THEN <<>>
    ELSE AlwaysTrueOrFalseScan(IF Len(tokens) = 0 THEN 0 ELSE 1)

checkAlwaysTrueOrFalseStringCompare ==
    /\ check = "none"
    /\ check' = "checkAlwaysTrueOrFalseStringCompare"
    /\ reported' = AlwaysTrueOrFalseFindings
    /\ UNCHANGED <<tokens, functionScopes, variables, settings, nullDeref>>

-----------------------------------------------------------------------------
(* checkSuspiciousStringCompare (lines 144-215).                           *)

suspiciousStringCompareError(tok, var) ==
    Finding("literalWithCharPtrCompare", "warning", tok, var, <<>>, <<>>, "")

suspiciousStringCompareError_char(tok, var) ==
    Finding("charLiteralWithCharPtrCompare", "warning", tok, var, <<>>, <<>>, "")

\* lines 171-172 and 184-185: down the second operands of "." and "::"
RECURSIVE DescendMember(_)
DescendMember(t) ==
    IF t # 0 /\ (Str(t) = <<".">> \/ Str(t) = s_coloncolon)
    THEN DescendMember(AstOperand2(t))
    ELSE t

\* line 173
IsPointerVarTok(t) == t # 0 /\ HasVariable(t) /\ Variable(t).isPointer

\* lines 167-176: in C, the pointer operand of an addition stands for it (the
\* second operand wins when both are pointers)
PointerAddition(varTok) ==
    IF Str(varTok) = <<"+">> /\ settings.isC THEN
        LET t1 == DescendMember(AstOperand1(varTok))
            t2 == DescendMember(AstOperand2(varTok))
        IN IF IsPointerVarTok(t2) THEN t2
           ELSE IF IsPointerVarTok(t1) THEN t1
           ELSE varTok
    ELSE varTok

\* lines 178-180 without the test of the literal's kind
DerefSkipIgnoringLiteral(varTok, litTok) ==
    \/ ~settings.isC
    \/ AstOperand2(varTok) # 0

\* lines 178-180: a "*" operand is given up unless this is C, the "*" is
\* unary and the literal is a string
SuspiciousDerefSkip(varTok, litTok) ==
    \/ ~settings.isC
    \/ AstOperand2(varTok) # 0
    \/ TokType(litTok) # "eString"

\* lines 191-192: up the parents that are "." or "*"
RECURSIVE ExpressionTop(_)
ExpressionTop(varTok) ==
    IF StrIs(AstParent(varTok), <<".">>) \/ StrIs(AstParent(varTok), <<"*">>)
    THEN ExpressionTop(AstParent(varTok))
    ELSE varTok

\* lines 184-200, once the expression side and the literal side are known
SuspiciousReport(tok, varTok0, litTok) ==
    LET varTok == DescendMember(varTok0) IN
    IF varTok = 0 \/ ~IsName(varTok) THEN <<>>
    ELSE LET varname == ExpressionTop(varTok) IN
         IF TokType(litTok) = "eString" THEN
             IF \/ settings.isC
                \/ (HasVariable(varTok)
                    /\ (Variable(varTok).isArray \/ Variable(varTok).isPointer))
             THEN <<suspiciousStringCompareError(tok, varname)>>
             ELSE <<>>
         ELSE IF /\ OriginalName(litTok) = s_nullchar
                 /\ HasVariable(varTok)
                 /\ Variable(varTok).isPointer
              THEN <<suspiciousStringCompareError_char(tok, varname)>>
         ELSE <<>>

\* the body of the loop at line 153, for one token
SuspiciousAt(tok) ==
    IF TokType(tok) # "eComparisonOp" THEN <<>>
    ELSE LET op1 == AstOperand1(tok)
             op2 == AstOperand2(tok)
         IN
         IF op1 = 0 \/ op2 = 0 THEN <<>>
         ELSE LET swap == TokType(op1) \in {"eString", "eNumber"}
                  litTok == IF swap THEN op1 ELSE op2
                  varTok == PointerAddition(IF swap THEN op2 ELSE op1)
              IN
              IF ~swap /\ TokType(op2) \notin {"eString", "eNumber"} THEN <<>>
              ELSE IF Str(varTok) = <<"*">> THEN
                  IF SuspiciousDerefSkip(varTok, litTok) THEN <<>>
                  ELSE SuspiciousReport(tok, AstOperand1(varTok), litTok)
              ELSE SuspiciousReport(tok, varTok, litTok)

RECURSIVE SuspiciousScope(_, _)
SuspiciousScope(tok, classEnd) ==
    IF tok = classEnd \/ tok = 0 THEN <<>>
    ELSE SuspiciousAt(tok) \o SuspiciousScope(TokNext(tok), classEnd)

RECURSIVE SuspiciousFrom(_)
SuspiciousFrom(i) ==
    IF i > Len(functionScopes) THEN <<>>
    ELSE SuspiciousScope(TokNext(functionScopes[i].classStart),
                         functionScopes[i].classEnd)
         \o SuspiciousFrom(i + 1)

\* lines 146-147 and the loops
SuspiciousFindings == IF ~settings.warning THEN <<>> ELSE SuspiciousFrom(1)

checkSuspiciousStringCompare ==
    /\ check = "none"
    /\ check' = "checkSuspiciousStringCompare"
    /\ reported' = SuspiciousFindings
    /\ UNCHANGED <<tokens, functionScopes, variables, settings, nullDeref>>

-----------------------------------------------------------------------------
(* strPlusChar and strPlusInteger (lines 222-283).                         *)

\* lines 222-225; var, a Variable pointer, is the token that has the variable
isChar(tok) ==
    /\ HasVariable(tok)
    /\ ~Variable(tok).isPointer
    /\ ~Variable(tok).isArray
    /\ Variable(tok).typeStart = s_char
    /\ Variable(tok).typeOriginalName = <<>>

strPlusCharError(tok) ==
    Finding("strPlusChar", "warning", tok, 0, <<>>, <<>>, "")

strPlusIntegerError(tok) ==
    Finding("strPlusInteger", "warning", tok, 0, <<>>, <<>>, "")

\* line 242, up to the read of tok->astOperand2()->variable()
CharPointerOperand(op1) ==
    /\ HasVariable(op1)
    /\ Variable(op1).isPointer
    /\ ~Variable(op1).isArray
    /\ Variable(op1).typeStart = s_char

\* line 242: astOperand2() is read without a null test.  Reading through the
\* null pointer is undefined: the run ends there ("crash") or the read yields
\* a value for which isChar() is TRUE ("char") or FALSE ("other").
UBOutcomes == {"crash", "char", "other"}

\* the body of the loop at line 233, for one token, under outcome ub of a
\* read through null
StrPlusCharAt(tok, ub) ==
    LET op1 == AstOperand1(tok)
        op2 == AstOperand2(tok)
        none == [errs |-> <<>>, null |-> FALSE, stop |-> FALSE]
        one == [errs |-> <<strPlusCharError(tok)>>, null |-> FALSE, stop |-> FALSE]
    IN
    IF Str(tok) = <<"+">> /\ op1 # 0 THEN
        IF TokType(op1) = "eString" THEN
            IF op2 # 0 /\ (TokType(op2) = "eChar" \/ isChar(op2)) THEN one ELSE none
        ELSE IF TokType(op1) = "eVariable" THEN
            IF CharPointerOperand(op1) THEN
                IF op2 = 0 THEN
                    [errs |-> IF ub = "char" THEN <<strPlusCharError(tok)>> ELSE <<>>,
                     null |-> TRUE, stop |-> (ub = "crash")]
                ELSE IF isChar(op2) THEN one ELSE none
            ELSE none
        ELSE none
    ELSE none

RECURSIVE StrPlusCharScope(_, _, _)
StrPlusCharScope(tok, classEnd, ub) ==
    IF tok = classEnd \/ tok = 0 THEN [errs |-> <<>>, null |-> FALSE, stop |-> FALSE]
    ELSE LET r == StrPlusCharAt(tok, ub) IN
         IF r.stop THEN r
         ELSE LET rest == StrPlusCharScope(TokNext(tok), classEnd, ub) IN
              [errs |-> r.errs \o rest.errs,
               null |-> r.null \/ rest.null,
               stop |-> rest.stop]

RECURSIVE StrPlusCharFrom(_, _)
StrPlusCharFrom(i, ub) ==
    IF i > Len(functionScopes) THEN [errs |-> <<>>, null |-> FALSE, stop |-> FALSE]
    ELSE LET r == StrPlusCharScope(TokNext(functionScopes[i].classStart),
                                   functionScopes[i].classEnd, ub)
         IN IF r.stop THEN r
            ELSE LET rest == StrPlusCharFrom(i + 1, ub) IN
                 [errs |-> r.errs \o rest.errs,
                  null |-> r.null \/ rest.null,
                  stop |-> rest.stop]

strPlusChar ==
    /\ check = "none"
    /\ \E ub \in UBOutcomes :
         LET r == StrPlusCharFrom(1, ub) IN
         /\ reported' = r.errs
         /\ nullDeref' = r.null
    /\ check' = "strPlusChar"
    /\ UNCHANGED <<tokens, functionScopes, variables, settings>>

\* the body of the loop at line 257, for one token
StrPlusIntegerAt(tok) ==
    LET op1 == AstOperand1(tok)
        op2 == AstOperand2(tok)
    IN
    IF /\ Str(tok) = <<"+">> /\ op1 # 0
       /\ TokType(op1) = "eString"
       /\ op2 # 0 /\ TokType(op2) = "eNumber"
    THEN <<strPlusIntegerError(tok)>>
    ELSE <<>>

RECURSIVE StrPlusIntegerScope(_, _)
StrPlusIntegerScope(tok, classEnd) ==
    IF tok = classEnd \/ tok = 0 THEN <<>>
    ELSE StrPlusIntegerAt(tok) \o StrPlusIntegerScope(TokNext(tok), classEnd)

RECURSIVE StrPlusIntegerFrom(_)
StrPlusIntegerFrom(i) ==
    IF i > Len(functionScopes) THEN <<>>
    ELSE StrPlusIntegerScope(TokNext(functionScopes[i].classStart),
                             functionScopes[i].classEnd)
         \o StrPlusIntegerFrom(i + 1)

strPlusInteger ==
    /\ check = "none"
    /\ check' = "strPlusInteger"
    /\ reported' = StrPlusIntegerFrom(1)
    /\ UNCHANGED <<tokens, functionScopes, variables, settings, nullDeref>>

-----------------------------------------------------------------------------
(* Helpers of class Token and MathLib used by the two checks below.        *)

\* Token::nextArgument(): the token after the next "," of this argument list,
\* null at the ")" or ";" that ends it; bracketed groups are stepped over
RECURSIVE NextArgument(_)
NextArgument(tok) ==
    IF tok = 0 THEN 0
    ELSE IF Str(tok) = <<",">> THEN TokNext(tok)
    ELSE IF Link(tok) # 0 /\ Str(tok) \in {<<"(">>, <<"{">>, <<"[">>, <<"<">>}
         THEN NextArgument(TokNext(Link(tok)))
    ELSE IF Str(tok) \in {<<")">>, <<";">>} THEN 0
    ELSE NextArgument(TokNext(tok))

Digits == <<"0", "1", "2", "3", "4", "5", "6", "7", "8", "9">>

DigitValue(c) == (CHOOSE d \in 1..10 : Digits[d] = c) - 1

\* MathLib::toLongNumber() of a decimal literal
RECURSIVE ToLongNumber(_)
ToLongNumber(str) ==
    IF str = <<>> THEN 0
    ELSE ToLongNumber(SubSeq(str, 1, Len(str) - 1)) * 10 + DigitValue(str[Len(str)])

\* std::string::find(): the first place pat occurs in str, from 0; npos is -1
Find(str, pat) ==
    LET occ == {i \in 0..(Len(str) - Len(pat)) : SubSeq(str, i + 1, i + Len(pat)) = pat}
    IN IF occ = {} THEN -1 ELSE CHOOSE i \in occ : \A j \in occ : i <= j

-----------------------------------------------------------------------------
(* checkIncorrectStringCompare (lines 289-346).                            *)

incorrectStringCompareError(tok, func, string) ==
    Finding("incorrectStringCompare", "warning", tok, 0, string, func, "")

incorrectStringBooleanError(tok, string) ==
    Finding("incorrectStringBooleanError", "warning", tok, 0, string, <<>>, "")

\* line 300: the name ends in "assert" or "ASSERT", as the code tests it
AssertName(str) ==
    /\ Len(str) >= 6
    /\ (Find(str, s_assert) = Len(str) - 6 \/ Find(str, s_ASSERT) = Len(str) - 6)

\* lines 300-302: "assert(str && ..)" and "assert(.. && str)"
AssertSkip(tok) ==
    /\ AssertName(Str(tok))
    /\ IsName(tok) /\ StrIs(TokAt(tok, 1), <<"(">>)
    /\ \/ (IsStr(TokAt(tok, 2)) /\ StrIs(TokAt(tok, 3), s_andand))
       \/ LET t == TokAt(LinkAt(tok, 1), -2) IN
          /\ StrIs(t, s_andand)
          /\ IsStr(TokAt(t, 1))
          /\ StrIs(TokAt(t, 2), <<")">>)

\* line 305: ". substr (" whose second argument is "%num% )"
MatchSubstr(tok) ==
    /\ StrIs(tok, <<".">>)
    /\ StrIs(TokAt(tok, 1), s_substr)
    /\ StrIs(TokAt(tok, 2), <<"(">>)
    /\ LET a == NextArgument(TokAt(tok, 3)) IN
       IsNum(a) /\ StrIs(TokAt(a, 1), <<")">>)

\* lines 309-310
RECURSIVE SkipBrackets(_)
SkipBrackets(begin) ==
    IF Link(begin) # 0 /\ Str(begin) \in {<<"]">>, <<")">>, <<">">>}
    THEN SkipBrackets(TokPrev(Link(begin)))
    ELSE begin

\* lines 308-315: the first token of the expression that substr is called on
RECURSIVE StatementStart(_)
StatementStart(begin) ==
    LET b == SkipBrackets(begin) IN
    IF StrIs(TokPrev(b), <<".">>) \/ StrIs(TokPrev(b), s_coloncolon)
    THEN StatementStart(TokAt(b, -2))
    ELSE b

IsEqOrNe(tok) == StrIs(tok, s_eq) \/ StrIs(tok, s_ne)

\* line 318: the literal is on the left, begin is the "==" or "!=" after it
LeftLiteralCompared(begin) ==
    /\ IsStr(TokPrev(begin))
    /\ IsEqOrNe(begin)
    /\ StrAt(begin, -2) # <<"+">>

\* line 323: "==|!= %str% !!+"
RightLiteralCompared(end) ==
    /\ IsEqOrNe(end)
    /\ IsStr(TokAt(end, 1))
    /\ ~StrIs(TokAt(end, 2), <<"+">>)

\* lines 320 and 325 with "<" for "!="
LengthShorter(clen, slen) == clen < slen

\* lines 320 and 325
LengthMismatch(clen, slen) == clen # slen

\* lines 306-328, at the "." of a matching substr call
SubstrCompare(tok) ==
    LET clen == ToLongNumber(StrAt(LinkAt(tok, 2), -1))
        begin == TokPrev(StatementStart(TokPrev(tok)))
        end == TokNext(LinkAt(tok, 2))
    IN
    IF LeftLiteralCompared(begin) THEN
        IF LengthMismatch(clen, GetStrLength(TokPrev(begin)))
        THEN <<incorrectStringCompareError(TokNext(tok), s_substr, StrAt(begin, -1))>>
        ELSE <<>>
    ELSE IF RightLiteralCompared(end) THEN
        IF LengthMismatch(clen, GetStrLength(TokNext(end)))
        THEN <<incorrectStringCompareError(TokNext(tok), s_substr, StrAt(end, 1))>>
        ELSE <<>>
    ELSE <<>>

IsLogicalOrLPar(tok) ==
    StrIs(tok, s_andand) \/ StrIs(tok, s_oror) \/ StrIs(tok, <<"(">>)

IsLogicalOrRPar(tok) ==
    StrIs(tok, s_andand) \/ StrIs(tok, s_oror) \/ StrIs(tok, <<")">>)

\* line 329
MatchStringOperand(tok) ==
    /\ IsLogicalOrLPar(tok) /\ IsStr(TokAt(tok, 1)) /\ IsLogicalOrRPar(TokAt(tok, 2))
    /\ ~(StrIs(tok, <<"(">>) /\ IsStr(TokAt(tok, 1)) /\ StrIs(TokAt(tok, 2), <<")">>))

\* line 331: "if|while ( %str% )"
MatchStringCondition(tok) ==
    /\ (StrIs(tok, s_if) \/ StrIs(tok, s_while))
    /\ StrIs(TokAt(tok, 1), <<"(">>)
    /\ IsStr(TokAt(tok, 2))
    /\ StrIs(TokAt(tok, 3), <<")">>)

\* the body of the loop at line 298 for one token: what it reports and where
\* it leaves tok
IncorrectStringCompareAt(tok0) ==
    LET tok == IF AssertSkip(tok0) THEN LinkAt(tok0, 1) ELSE tok0 IN
    [tok |-> tok,
     errs |-> IF MatchSubstr(tok) THEN SubstrCompare(tok)
              ELSE IF MatchStringOperand(tok)
                   THEN <<incorrectStringBooleanError(TokNext(tok), StrAt(tok, 1))>>
              ELSE IF MatchStringCondition(tok)
                   THEN <<incorrectStringBooleanError(TokAt(tok, 2), StrAt(tok, 2))>>
              ELSE <<>>]

RECURSIVE IncorrectStringCompareScope(_, _)
IncorrectStringCompareScope(tok, classEnd) ==
    IF tok = classEnd \/ tok = 0 THEN <<>>
    ELSE LET r == IncorrectStringCompareAt(tok) IN
         r.errs \o IncorrectStringCompareScope(TokNext(r.tok), classEnd)

RECURSIVE IncorrectStringCompareFrom(_)
IncorrectStringCompareFrom(i) ==
    IF i > Len(functionScopes) THEN <<>>
    ELSE IncorrectStringCompareScope(TokNext(functionScopes[i].classStart),
                                     functionScopes[i].classEnd)
         \o IncorrectStringCompareFrom(i + 1)

\* the loops without lines 291-292
IncorrectStringCompareUngated == IncorrectStringCompareFrom(1)

\* lines 291-292 and the loops
IncorrectStringCompareFindings ==
    IF ~settings.warning THEN <<>> ELSE IncorrectStringCompareFrom(1)

checkIncorrectStringCompare ==
    /\ check = "none"
    /\ check' = "checkIncorrectStringCompare"
    /\ reported' = IncorrectStringCompareFindings
    /\ UNCHANGED <<tokens, functionScopes, variables, settings, nullDeref>>

-----------------------------------------------------------------------------
(* sprintfOverlappingData (lines 351-399).                                 *)

sprintfOverlappingDataError(tok, varname) ==
    Finding("sprintfOverlappingData", "error", tok, 0, varname, <<>>, "")

IsSprintfName(tok) ==
    StrIs(tok, s_sprintf) \/ StrIs(tok, s_snprintf) \/ StrIs(tok, s_swprintf)

\* line 361: "sprintf|snprintf|swprintf ( %var% ,"
MatchSprintfVar(tok) ==
    /\ IsSprintfName(tok)
    /\ StrIs(TokAt(tok, 1), <<"(">>)
    /\ IsVar(TokAt(tok, 2))
    /\ StrIs(TokAt(tok, 3), <<",">>)

\* line 364: "sprintf|snprintf|swprintf ( %name% . %var% ,"
MatchSprintfMember(tok) ==
    /\ IsSprintfName(tok)
    /\ StrIs(TokAt(tok, 1), <<"(">>)
    /\ IsName(TokAt(tok, 2))
    /\ StrIs(TokAt(tok, 3), <<".">>)
    /\ IsVar(TokAt(tok, 4))
    /\ StrIs(TokAt(tok, 5), <<",">>)

\* line 381: "%varid% [,)]"
MatchVarIdArgument(tok2, varid) ==
    /\ IsName(tok2) /\ VarId(tok2) = varid
    /\ IsCommaOrRPar(TokAt(tok2, 1))

\* lines 371-377 with the format argument stepped over as well
FirstArgumentAfterFormat(tok) ==
    LET tok2 == NextArgument(TokAt(tok, 2)) IN
    IF Str(tok) = s_snprintf \/ Str(tok) = s_swprintf
    THEN NextArgument(NextArgument(tok2))
    ELSE NextArgument(tok2)

\* lines 371-377: the first argument the loop looks at (null: none)
FirstSourceArgument(tok) ==
    LET tok2 == NextArgument(TokAt(tok, 2)) IN
    IF Str(tok) = s_snprintf \/ Str(tok) = s_swprintf
    THEN NextArgument(tok2)
    ELSE tok2

\* lines 380-385
RECURSIVE OverlapScan(_, _)
OverlapScan(tok2, varid) ==
    IF tok2 = 0 THEN <<>>
    ELSE IF MatchVarIdArgument(tok2, varid)
         THEN <<sprintfOverlappingDataError(tok2, Str(tok2))>>
    ELSE OverlapScan(NextArgument(tok2), varid)

\* the body of the loop at line 357, for one token
SprintfOverlappingAt(tok) ==
    IF MatchSprintfVar(tok)
    THEN OverlapScan(FirstSourceArgument(tok), VarId(TokAt(tok, 2)))
    ELSE IF MatchSprintfMember(tok)
    THEN OverlapScan(FirstSourceArgument(tok), VarId(TokAt(tok, 4)))
    ELSE <<>>

RECURSIVE SprintfOverlappingScope(_, _)
SprintfOverlappingScope(tok, classEnd) ==
    IF tok = classEnd \/ tok = 0 THEN <<>>
    ELSE SprintfOverlappingAt(tok) \o SprintfOverlappingScope(TokNext(tok), classEnd)

RECURSIVE SprintfOverlappingFrom(_)
SprintfOverlappingFrom(i) ==
    IF i > Len(functionScopes) THEN <<>>
    ELSE SprintfOverlappingScope(TokNext(functionScopes[i].classStart),
                                 functionScopes[i].classEnd)
         \o SprintfOverlappingFrom(i + 1)

sprintfOverlappingData ==
    /\ check = "none"
    /\ check' = "sprintfOverlappingData"
    /\ reported' = SprintfOverlappingFrom(1)
    /\ UNCHANGED <<tokens, functionScopes, variables, settings, nullDeref>>

-----------------------------------------------------------------------------
(* The analysed translation units.  The tokenizer, the AST builder and the *)
(* symbol database are outside this file; what they hand over is built     *)
(* here: token lists with bracket links, AST links for the expressions the *)
(* AST-walking checks read, the function scopes and the variable facts.    *)
(* Every unit is                                                           *)
(*     void g ( ) { }   <global tokens>   void f ( ) { <body> }           *)

Tok(str, tokType) ==
    [str |-> str, tokType |-> tokType, varId |-> 0, originalName |-> <<>>,
     link |-> 0, astOperand1 |-> 0, astOperand2 |-> 0, astParent |-> 0,
     valueStr |-> 0]

NameTok(str) == Tok(str, "eName")

VarTok(str, id) == [Tok(str, "eVariable") EXCEPT !.varId = id]

StrTok(value) == Tok(<<"\"">> \o value \o <<"\"">>, "eString")

NumTok(str) == Tok(str, "eNumber")

\* the tokenizer turns the literal '\0' into the number 0 and keeps the
\* spelling as the original name (read at line 198)
NullCharTok == [Tok(<<"0">>, "eNumber") EXCEPT !.originalName = s_nullchar]

CharTok == Tok(<<"'", "a", "'">>, "eChar")

Punct(c) == Tok(<<c>>, "eOther")

CompOp(str) == Tok(str, "eComparisonOp")

ArithOp(c) == Tok(<<c>>, "eArithmeticalOp")

LogicOp(str) == Tok(str, "eLogicalOp")

Opens == {<<"(">>, <<"[">>, <<"{">>}

Closes == {<<")">>, <<"]">>, <<"}">>}

RECURSIVE FindClose(_, _, _)
FindClose(toks, i, depth) ==
    IF i > Len(toks) THEN 0
    ELSE IF toks[i].str \in Opens THEN FindClose(toks, i + 1, depth + 1)
    ELSE IF toks[i].str \in Closes THEN
        IF depth = 0 THEN i ELSE FindClose(toks, i + 1, depth - 1)
    ELSE FindClose(toks, i + 1, depth)

RECURSIVE FindOpen(_, _, _)
FindOpen(toks, i, depth) ==
    IF i < 1 THEN 0
    ELSE IF toks[i].str \in Closes THEN FindOpen(toks, i - 1, depth + 1)
    ELSE IF toks[i].str \in Opens THEN
        IF depth = 0 THEN i ELSE FindOpen(toks, i - 1, depth - 1)
    ELSE FindOpen(toks, i - 1, depth)

\* Tokenizer::createLinks
WithLinks(toks) ==
    [i \in 1..Len(toks) |->
        IF toks[i].str \in Opens
        THEN [toks[i] EXCEPT !.link = FindClose(toks, i + 1, 0)]
        ELSE IF toks[i].str \in Closes
        THEN [toks[i] EXCEPT !.link = FindOpen(toks, i - 1, 0)]
        ELSE toks[i]]

ShiftIx(i, k) == IF i = 0 THEN 0 ELSE i + k

\* the tokens toks, k places further on in the list
Shift(toks, k) ==
    [i \in 1..Len(toks) |->
        [toks[i] EXCEPT !.astOperand1 = ShiftIx(@, k),
                        !.astOperand2 = ShiftIx(@, k),
                        !.astParent = ShiftIx(@, k),
                        !.valueStr = ShiftIx(@, k)]]

EmptyFunction == <<NameTok(s_void), NameTok(<<"g">>), Punct("("), Punct(")"),
                   Punct("{"), Punct("}")>>

FunctionHead == <<NameTok(s_void), NameTok(<<"f">>), Punct("("), Punct(")"),
                  Punct("{")>>

\* the unit with these global tokens and this body of f
UnitTokens(global, body) ==
    WithLinks(EmptyFunction
              \o Shift(global, Len(EmptyFunction))
              \o FunctionHead
              \o Shift(body, Len(EmptyFunction) + Len(global) + Len(FunctionHead))
              \o <<Punct("}")>>)

UnitScopes(global, body) ==
    <<[classStart |-> 5, classEnd |-> 6],
      [classStart |-> Len(EmptyFunction) + Len(global) + Len(FunctionHead),
       classEnd |-> Len(EmptyFunction) + Len(global) + Len(FunctionHead)
                    + Len(body) + 1]>>

\* facts of a Variable
Facts(isPointer, isArray, typeStart) ==
    [isPointer |-> isPointer, isArray |-> isArray, typeStart |-> typeStart,
     typeOriginalName |-> <<>>]

CharPtrFacts == Facts(TRUE, FALSE, s_char)
CharArrayFacts == Facts(FALSE, TRUE, s_char)
CharFacts == Facts(FALSE, FALSE, s_char)
IntPtrFacts == Facts(TRUE, FALSE, s_int)
IntFacts == Facts(FALSE, FALSE, s_int)

\* variable 1 has the facts given; 2 is "char c", 3 is "int n", 4 an object
VariablesWith(facts1) == <<facts1, CharFacts, IntFacts, IntFacts>>

\* the statement "x = <toks> ;"
Assignment(toks) ==
    <<VarTok(<<"x">>, 3), Punct("=")>> \o Shift(toks, 2) \o <<Punct(";")>>

\* all sequences over S of length at most n
RECURSIVE SeqsUpTo(_, _)
SeqsUpTo(S, n) ==
    IF n = 0 THEN {<<>>}
    ELSE LET shorter == SeqsUpTo(S, n - 1) IN
         shorter \cup {Append(q, x) : q \in shorter, x \in S}

Start(global, body, vs, st) ==
    /\ tokens = UnitTokens(global, body)
    /\ functionScopes = UnitScopes(global, body)
    /\ variables = vs
    /\ settings = st
    /\ check = "none"
    /\ reported = <<>>
    /\ nullDeref = FALSE

Alphabet == <<"a", "b", "c", "d", "e", "f", "g", "h", "i", "j", "k", "l", "m",
              "n", "o", "p", "q", "r", "s", "t", "u", "v", "w", "x", "y", "z">>

\* the literal value of length n
LongStr(n) == SubSeq(Alphabet, 1, n)

LitA == StrTok(<<"a">>)
LitB == StrTok(<<"b">>)
LitAB == StrTok(<<"a", "b">>)
LitABC == StrTok(<<"a", "b", "c">>)

Call(f, args) == <<NameTok(f), Punct("(")>> \o args \o <<Punct(")")>>

(* Lists for checkAlwaysTrueOrFalseStringCompare: one or two items, each a *)
(* literal comparison or a call, with up to MaxGap tokens between them,    *)
(* as the right side of an assignment in f or of a global initialisation.  *)

LiteralCompares ==
    {<<LitA, CompOp(op), l2>> : op \in {s_eq, s_ne}, l2 \in {LitA, LitB}}

CStrOf(v) ==
    <<v, Punct("."), NameTok(s_c_str), Punct("("), Punct(")")>>

CompareCalls ==
    {Call(s_strcmp, <<a[1], Punct(","), a[2]>>) :
        a \in {<<LitA, LitA>>, <<LitA, LitB>>,
               <<VarTok(<<"s">>, 1), VarTok(<<"s">>, 1)>>,
               <<VarTok(<<"s">>, 1), VarTok(<<"t">>, 2)>>}}
    \cup {Call(s_strncmp, <<LitA, Punct(","), LitB, Punct(","), NumTok(<<"1">>)>>)}
    \cup {Call(s_foo, <<LitA, Punct(","), LitA>>)}
    \cup {Call(s_strcmp, CStrOf(VarTok(<<"s">>, 1)) \o <<Punct(",")>> \o CStrOf(v)) :
            v \in {VarTok(<<"s">>, 1), VarTok(<<"t">>, 2)}}
    \cup {<<NameTok(s_QString), Tok(s_coloncolon, "eOther"), NameTok(s_compare),
            Punct("("), LitA, Punct(","), LitB, Punct(")")>>}

CompareItems == LiteralCompares \cup CompareCalls

CompareGaps == SeqsUpTo({Punct(","), ArithOp("+")}, MaxGap)

CompareLists ==
    {gap \o second : gap \in CompareGaps, second \in CompareItems}
    \cup {first \o gap \o second :
            first \in CompareItems, gap \in CompareGaps \ {<<>>}, second \in CompareItems}
    \cup {<<StrTok(LongStr(n)), CompOp(s_eq), LitB>> : n \in 0..MaxStrLen}

GlobalInit(toks) ==
    <<NameTok(s_int), VarTok(<<"x">>, 3), Punct("=")>> \o toks \o <<Punct(";")>>

InitCompare ==
    \E list \in CompareLists, global \in BOOLEAN, warning \in BOOLEAN :
        Start(IF global THEN GlobalInit(list) ELSE <<>>,
              IF global THEN <<>> ELSE Assignment(list),
              VariablesWith(CharPtrFacts),
              [warning |-> warning, isC |-> FALSE])

(* Expressions with their AST, for checkSuspiciousStringCompare,           *)
(* strPlusChar and strPlusInteger: "A == B ;" and "A + B ;" in f.  An      *)
(* operand is a token list and the place of its root in it.  miss tells    *)
(* which operand link the AST builder failed to create (0: none).          *)

SetParent(toks, i, parent) == [toks EXCEPT ![i].astParent = parent]

Leaf(t) == [toks |-> <<t>>, root |-> 1]

Unary(opTok, A) ==
    [toks |-> <<[opTok EXCEPT !.astOperand1 = A.root + 1]>>
              \o SetParent(Shift(A.toks, 1), A.root, 1),
     root |-> 1]

Binary(opTok, A, B, miss) ==
    LET o == Len(A.toks) + 1
        b == Shift(B.toks, o)
    IN [toks |-> (IF miss = 1 THEN A.toks ELSE SetParent(A.toks, A.root, o))
                 \o <<[opTok EXCEPT
                         !.astOperand1 = IF miss = 1 THEN 0 ELSE A.root,
                         !.astOperand2 = IF miss = 2 THEN 0 ELSE B.root + o]>>
                 \o (IF miss = 2 THEN b ELSE SetParent(b, B.root, o)),
        root |-> o]

VarP == VarTok(<<"p">>, 1)
VarC == VarTok(<<"c">>, 2)
VarN == VarTok(<<"n">>, 3)
VarObj == VarTok(<<"o">>, 4)

ExprShapes == {"p", "*p", "o.p", "*o.p", "p+1", "+p", "p*n", "u", "c", "n"}

LitShapes == {"str", "nullchar", "num", "char"}

Operand(shape) ==
    CASE shape = "p" -> Leaf(VarP)
      [] shape = "c" -> Leaf(VarC)
      [] shape = "n" -> Leaf(VarN)
      [] shape = "u" -> Leaf(NameTok(<<"u">>))
      [] shape = "str" -> Leaf(LitA)
      [] shape = "nullchar" -> Leaf(NullCharTok)
      [] shape = "num" -> Leaf(NumTok(<<"1">>))
      [] shape = "char" -> Leaf(CharTok)
      [] shape = "*p" -> Unary(ArithOp("*"), Leaf(VarP))
      [] shape = "+p" -> Unary(ArithOp("+"), Leaf(VarP))
      [] shape = "o.p" -> Binary(Punct("."), Leaf(VarObj), Leaf(VarP), 0)
      [] shape = "*o.p" ->
            Unary(ArithOp("*"), Binary(Punct("."), Leaf(VarObj), Leaf(VarP), 0))
      [] shape = "p+1" -> Binary(ArithOp("+"), Leaf(VarP), Leaf(NumTok(<<"1">>)), 0)
      [] shape = "p*n" -> Binary(ArithOp("*"), Leaf(VarP), Leaf(VarN), 0)

OperandPairs ==
    (ExprShapes \X LitShapes) \cup (LitShapes \X ExprShapes)
    \cup (LitShapes \X LitShapes) \cup (ExprShapes \X {"p", "c", "n"})

PointerFacts == {CharPtrFacts, CharArrayFacts, IntPtrFacts, IntFacts}

ExpressionStatement(opTok, pair, miss) ==
    Binary(opTok, Operand(pair[1]), Operand(pair[2]), miss).toks \o <<Punct(";")>>

InitComparison ==
    \E pair \in OperandPairs, miss \in 0..2, facts \in PointerFacts,
       warning \in BOOLEAN, isC \in BOOLEAN :
        Start(<<>>, ExpressionStatement(CompOp(s_eq), pair, miss),
              VariablesWith(facts), [warning |-> warning, isC |-> isC])

InitAddition ==
    \E pair \in OperandPairs, miss \in 0..2, facts \in PointerFacts :
        Start(<<>>, ExpressionStatement(ArithOp("+"), pair, miss),
              VariablesWith(facts), [warning |-> TRUE, isC |-> FALSE])

(* Calls for sprintfOverlappingData: "f ( dest , arg , ... ) ;" in f, the   *)
(* destination "buf" or "o . buf", one to MaxArgs further arguments.       *)

VarBuf == VarTok(<<"b", "u", "f">>, 1)
VarOther == VarTok(<<"t">>, 2)

ArgKinds == {"buf", "other", "fmt", "buf+1", "foo(buf)"}

ArgTokens(kind) ==
    CASE kind = "buf" -> <<VarBuf>>
      [] kind = "other" -> <<VarOther>>
      [] kind = "fmt" -> <<LitA>>
      [] kind = "buf+1" -> <<VarBuf, ArithOp("+"), NumTok(<<"1">>)>>
      [] kind = "foo(buf)" -> Call(s_foo, <<VarBuf>>)

RECURSIVE ArgList(_)
ArgList(kinds) ==
    IF kinds = <<>> THEN <<>>
    ELSE <<Punct(",")>> \o ArgTokens(Head(kinds)) \o ArgList(Tail(kinds))

SprintfCall(f, member, kinds) ==
    Call(f, (IF member THEN <<VarObj, Punct(".")>> ELSE <<>>) \o <<VarBuf>>
            \o ArgList(kinds))
    \o <<Punct(";")>>

InitSprintf ==
    \E f \in {s_sprintf, s_snprintf, s_swprintf, s_foo}, member \in BOOLEAN,
       kinds \in SeqsUpTo(ArgKinds, MaxArgs) \ {<<>>} :
        Start(<<>>, SprintfCall(f, member, kinds),
              VariablesWith(CharArrayFacts), [warning |-> TRUE, isC |-> FALSE])

(* Expressions for checkIncorrectStringCompare:                            *)
(*     [lit ==] obj . substr ( 0 , len ) [!= lit]                         *)
(* alone, as an if condition, or as an operand of "&&" in an assert call.  *)

SubstrObjects ==
    {<<VarTok(<<"s">>, 1)>>,
     <<VarObj, Punct("."), VarTok(<<"s">>, 1)>>,
     <<NameTok(s_foo), Punct("("), Punct(")")>>}

SubstrLengths == {NumTok(<<Digits[d + 1]>>) : d \in 0..MaxNum} \cup {VarN}

SubstrLiterals == {LitAB, LitABC}

SubstrLefts ==
    {<<>>}
    \cup {<<l, CompOp(s_eq)>> : l \in SubstrLiterals}
    \cup {<<VarOther, ArithOp("+"), l, CompOp(s_eq)>> : l \in SubstrLiterals}

SubstrRights ==
    {<<>>}
    \cup {<<CompOp(s_ne), l>> : l \in SubstrLiterals}
    \cup {<<CompOp(s_ne), l, ArithOp("+"), VarOther>> : l \in SubstrLiterals}

SubstrExpr(left, obj, len, right) ==
    left \o obj
    \o <<Punct("."), NameTok(s_substr), Punct("("), NumTok(<<"0">>), Punct(","),
         len, Punct(")")>>
    \o right

Wrappers == {"assign", "if", "assert first", "ASSERT last"}

Wrapped(wrapper, expr) ==
    CASE wrapper = "assign" -> Assignment(expr)
      [] wrapper = "if" ->
            <<NameTok(s_if), Punct("(")>> \o expr \o <<Punct(")"), Punct(";")>>
      [] wrapper = "assert first" ->
            Call(s_assert, <<LitA, LogicOp(s_andand)>> \o expr) \o <<Punct(";")>>
      [] wrapper = "ASSERT last" ->
            Call(s_ASSERT, expr \o <<LogicOp(s_andand), LitA>>) \o <<Punct(";")>>

InitSubstr ==
    \E wrapper \in Wrappers, left \in SubstrLefts, obj \in SubstrObjects,
       len \in SubstrLengths, right \in SubstrRights, warning \in BOOLEAN :
        Start(<<>>, Wrapped(wrapper, SubstrExpr(left, obj, len, right)),
              VariablesWith(IntFacts), [warning |-> warning, isC |-> FALSE])

(* String literals used as conditions.                                     *)

BooleanExprs ==
    {<<LitA>>,
     <<LitA, LogicOp(s_andand), VarN>>,
     <<VarN, LogicOp(s_oror), LitA>>,
     <<Punct("("), LitA, Punct(")")>>}

InitBoolean ==
    \E wrapper \in Wrappers \cup {"while"}, expr \in BooleanExprs, warning \in BOOLEAN :
        Start(<<>>,
              IF wrapper = "while"
              THEN <<NameTok(s_while), Punct("(")>> \o expr \o <<Punct(")"), Punct(";")>>
              ELSE Wrapped(wrapper, expr),
              VariablesWith(IntFacts), [warning |-> warning, isC |-> FALSE])

(* Calls "name ( e1 && e2 && .. ) ;" for checkIncorrectStringCompare, each *)
(* operand a string literal or a variable: names that end in assert or     *)
(* ASSERT (bare, after a prefix, after an earlier "assert"), one that only *)
(* contains "assert", and one that does not.                               *)

AssertNames ==
    {s_assert, s_ASSERT,
     <<"m", "y", "_", "a", "s", "s", "e", "r", "t">>,
     <<"M", "Y", "_", "A", "S", "S", "E", "R", "T">>,
     <<"a", "s", "s", "e", "r", "t", "_", "a", "s", "s", "e", "r", "t">>,
     <<"a", "s", "s", "e", "r", "t", "e", "d">>,
     s_foo}

InitAssert ==
    \E name \in AssertNames, ops \in SeqsUpTo({LitA, VarN}, MaxArgs) \ {<<>>},
       warning \in BOOLEAN :
        Start(<<>>,
              Call(name, [i \in 1..(2 * Len(ops) - 1) |->
                             IF i % 2 = 1 THEN ops[(i + 1) \div 2]
                             ELSE LogicOp(s_andand)])
              \o <<Punct(";")>>,
              VariablesWith(IntFacts), [warning |-> warning, isC |-> FALSE])

(* Writes for stringLiteralWrite: "p = <literal> ; <write> ;" in f, where   *)
(* the value analysis may know that p points at the literal (token 3).     *)

WriteKinds == {"p[0]=", "*p=", "p=", "=p[0]"}

PointsAt(tok, known) == IF known THEN [tok EXCEPT !.valueStr = 3] ELSE tok

WriteTokens(kind, p) ==
    CASE kind = "p[0]=" ->
            <<p, Punct("["), NumTok(<<"0">>), Punct("]"), Punct("="), NumTok(<<"0">>)>>
      [] kind = "*p=" -> <<ArithOp("*"), p, Punct("="), NumTok(<<"0">>)>>
      [] kind = "p=" -> <<p, Punct("="), NumTok(<<"0">>)>>
      [] kind = "=p[0]" ->
            <<VarN, Punct("="), p, Punct("["), NumTok(<<"0">>), Punct("]")>>

InitWrite ==
    \E kind \in WriteKinds, known \in BOOLEAN, n \in 0..MaxStrLen,
       facts \in {CharPtrFacts, CharArrayFacts} :
        Start(<<>>,
              <<VarP, Punct("="), StrTok(LongStr(n)), Punct(";")>>
              \o WriteTokens(kind, PointsAt(VarP, known)) \o <<Punct(";")>>,
              VariablesWith(facts), [warning |-> TRUE, isC |-> FALSE])

-----------------------------------------------------------------------------

Init ==
    \/ InitCompare
    \/ InitComparison
    \/ InitAddition
    \/ InitSprintf
    \/ InitSubstr
    \/ InitBoolean
    \/ InitAssert
    \/ InitWrite

Next ==
    \/ stringLiteralWrite
    \/ checkAlwaysTrueOrFalseStringCompare
    \/ checkSuspiciousStringCompare
    \/ strPlusChar
    \/ strPlusInteger
    \/ checkIncorrectStringCompare
    \/ sprintfOverlappingData

Spec == Init /\ [][Next]_vars

-----------------------------------------------------------------------------
(* What the claims speak of.                                               *)

Tokens == 1..Len(tokens)

\* the findings with this rule id anchored at tok
ReportedAt(id, tok) ==
    {i \in DOMAIN reported : reported[i].id = id /\ reported[i].tok = tok}

\* all findings anchored at tok
AnyReportedAt(tok) == {i \in DOMAIN reported : reported[i].tok = tok}

\* a comparison in a function scope with both operands, one of them the
\* null-character literal and the other satisfying a condition given below
ScopedComparison(tok) ==
    /\ InSomeScope(tok)
    /\ TokType(tok) = "eComparisonOp"
    /\ AstOperand1(tok) # 0 /\ AstOperand2(tok) # 0

IsNullCharLiteral(t) == TokType(t) = "eNumber" /\ OriginalName(t) = s_nullchar

IsPointerVariable(t) ==
    TokType(t) = "eVariable" /\ HasVariable(t) /\ Variable(t).isPointer

IsDereferencedPointer(t) ==
    Str(t) = <<"*">> /\ AstOperand2(t) = 0 /\ IsPointerVariable(AstOperand1(t))

\* p == '\0' (either order)
PlainNullCharCompare(tok) ==
    /\ ScopedComparison(tok)
    /\ \/ IsNullCharLiteral(AstOperand2(tok)) /\ IsPointerVariable(AstOperand1(tok))
       \/ IsNullCharLiteral(AstOperand1(tok)) /\ IsPointerVariable(AstOperand2(tok))

\* *p == '\0' (either order)
DerefNullCharCompare(tok) ==
    /\ ScopedComparison(tok)
    /\ \/ IsNullCharLiteral(AstOperand2(tok)) /\ IsDereferencedPointer(AstOperand1(tok))
       \/ IsNullCharLiteral(AstOperand1(tok)) /\ IsDereferencedPointer(AstOperand2(tok))

SuspiciousRan == check = "checkSuspiciousStringCompare" /\ settings.warning

\* C1 as stated: with '\0' on one side and a pointer p on the other, the
\* dereferenced form *p == '\0' gets the charLiteralWithCharPtrCompare warning
\* and the plain form p == '\0' gets no finding.
C1_DerefWarnedPlainSilent ==
    SuspiciousRan =>
        \A tok \in Tokens :
            /\ DerefNullCharCompare(tok) =>
                 Cardinality(ReportedAt("charLiteralWithCharPtrCompare", tok)) = 1
            /\ PlainNullCharCompare(tok) => AnyReportedAt(tok) = {}

\* C1 as amended: it is the plain form p == '\0' that gets exactly one
\* charLiteralWithCharPtrCompare warning (and nothing else), and the
\* dereferenced form *p == '\0' that gets no finding.
C1_PlainWarnedDerefSilent ==
    SuspiciousRan =>
        \A tok \in Tokens :
            /\ PlainNullCharCompare(tok) =>
                 /\ Cardinality(ReportedAt("charLiteralWithCharPtrCompare", tok)) = 1
                 /\ Cardinality(AnyReportedAt(tok)) = 1
            /\ DerefNullCharCompare(tok) => AnyReportedAt(tok) = {}

C1_Witness ==
    /\ SuspiciousRan
    /\ \E tok \in Tokens :
         /\ PlainNullCharCompare(tok)
         /\ ReportedAt("charLiteralWithCharPtrCompare", tok) # {}

\* a second reachable case of C1: the dereferenced form was scanned in C
C1_WitnessDeref ==
    /\ SuspiciousRan /\ settings.isC
    /\ \E tok \in Tokens : DerefNullCharCompare(tok)

\* C2: every finding of every check is anchored at a token inside a function
\* scope (so nothing outside [classStart, classEnd) is reported on, and the
\* empty body of g yields nothing).
C2_FindingsInsideScopes ==
    \A i \in DOMAIN reported : InSomeScope(reported[i].tok)

ASTChecks == {"checkSuspiciousStringCompare", "strPlusChar", "strPlusInteger"}

\* C3: a comparison or "+" token that lacks an operand is skipped: the three
\* AST-walking checks never read through a null operand and report nothing
\* at such a token.
C3_MissingOperandSkipped ==
    /\ ~nullDeref
    /\ check \in ASTChecks =>
         \A i \in DOMAIN reported :
             /\ AstOperand1(reported[i].tok) # 0
             /\ AstOperand2(reported[i].tok) # 0

AlwaysRan == check = "checkAlwaysTrueOrFalseStringCompare" /\ settings.warning

\* f ( L1 , L2 ,|) with f a listed compare function
LiteralCall(tok) == MatchCompareCall(tok) /\ MatchTwoLiterals(TokAt(tok, 2))

\* f ( a , b ,|) with f a listed compare function
NameCall(tok) == MatchCompareCall(tok) /\ MatchTwoNames(TokAt(tok, 2))

\* C4: every call f ( L1 , L2 ,|) of a listed compare function with two
\* literals gets exactly one staticStringCompare finding, saying "identical"
\* when the literals are equal and "unequal" when they differ.
C4_LiteralCallReported ==
    AlwaysRan =>
        \A tok \in Tokens :
            LiteralCall(tok) =>
                /\ Cardinality(ReportedAt("staticStringCompare", tok)) = 1
                /\ \A i \in ReportedAt("staticStringCompare", tok) :
                       reported[i].verdict =
                           IF StrAt(tok, 2) = StrAt(tok, 4) THEN "identical" ELSE "unequal"

\* C5: a call f ( a , b ,|) of a listed compare function with two names gets
\* no finding when the names differ and exactly one stringCompare finding
\* when they are the same.
C5_NameCallReported ==
    AlwaysRan =>
        \A tok \in Tokens :
            NameCall(tok) =>
                IF StrAt(tok, 2) = StrAt(tok, 4)
                THEN Cardinality(ReportedAt("stringCompare", tok)) = 1
                ELSE AnyReportedAt(tok) = {}

\* C10: every literal comparison L1 ==|!= L2 whose neighbours are not "+"
\* (and whose preceding token is not itself a literal of another comparison)
\* gets exactly one staticStringCompare finding, wherever it stands in the
\* list: no comparison is skipped because of an earlier match.
C10_EveryLiteralCompareReported ==
    AlwaysRan =>
        \A tok \in Tokens :
            (MatchLiteralCompare(tok) /\ ~IsStr(tok)) =>
                Cardinality(ReportedAt("staticStringCompare", tok)) = 1

\* sprintf|snprintf|swprintf ( dest , ... in a function scope
ScopedSprintfCall(tok) == InSomeScope(tok) /\ MatchSprintfVar(tok)

\* j is enclosed by a bracket pair that opens after the call's "("
Nested(call, j) ==
    \E k \in (call + 2)..(j - 1) :
        tokens[k].str \in Opens /\ tokens[k].link > j

\* j is the first token of an argument of the call
ArgumentStart(call, j) ==
    /\ call + 1 < j /\ j < Link(call + 1)
    /\ ~Nested(call, j)
    /\ (j = call + 2 \/ (Str(j - 1) = <<",">> /\ ~Nested(call, j - 1)))

\* the place of the argument that starts at j: 1 for the destination
ArgumentIndex(call, j) ==
    Cardinality({k \in (call + 2)..j : ArgumentStart(call, k)})

\* the argument at j is the destination's variable and nothing else
BareDestination(call, j) ==
    /\ ArgumentStart(call, j)
    /\ VarId(j) = VarId(call + 2)
    /\ (Str(j + 1) = <<",">> \/ Str(j + 1) = <<")">>)

IsNVariant(call) == Str(call) = s_snprintf \/ Str(call) = s_swprintf

\* the findings anchored inside the call's parentheses
ReportedInCall(call) ==
    {i \in DOMAIN reported :
        /\ reported[i].id = "sprintfOverlappingData"
        /\ call + 1 < reported[i].tok /\ reported[i].tok < Link(call + 1)}

\* the bare uses of the destination among the arguments after the first
\* `skipped` ones
BareUsesAfter(call, skipped) ==
    {j \in Tokens : BareDestination(call, j) /\ ArgumentIndex(call, j) > skipped}

\* the call gets exactly one finding, at the first of these uses
ReportedAtFirst(call, uses) ==
    /\ Cardinality(ReportedInCall(call)) = 1
    /\ \A i \in ReportedInCall(call) :
           /\ reported[i].tok \in uses
           /\ \A j \in uses : reported[i].tok <= j

\* the call gets one finding, at the first bare use of the destination among
\* the arguments after the first `skipped` ones, and none if there is none
OverlapReportedAfter(call, skipped) ==
    IF BareUsesAfter(call, skipped) = {} THEN ReportedInCall(call) = {}
    ELSE ReportedAtFirst(call, BareUsesAfter(call, skipped))

SprintfRan == check = "sprintfOverlappingData"

\* C6 as stated: the finding is at the first bare use of dest among the
\* variadic arguments, that is after the destination and the format string
\* (and the length, for snprintf and swprintf); one finding at most; none
\* when no argument after the destination is a bare use of dest.
C6_OverlapAfterFormat ==
    SprintfRan =>
        \A call \in Tokens :
            ScopedSprintfCall(call) =>
                LET variadic == BareUsesAfter(call, IF IsNVariant(call) THEN 3 ELSE 2) IN
                /\ Cardinality(ReportedInCall(call)) <= 1
                /\ variadic # {} => ReportedAtFirst(call, variadic)
                /\ BareUsesAfter(call, 1) = {} => ReportedInCall(call) = {}

\* C6 as amended: the format argument is scanned too.  The finding is at the
\* first bare use of dest among the arguments after the destination (after
\* the length argument, for snprintf and swprintf); one finding at most; none
\* when there is no such use.
C6_OverlapAfterDestination ==
    SprintfRan =>
        \A call \in Tokens :
            ScopedSprintfCall(call) =>
                OverlapReportedAfter(call, IF IsNVariant(call) THEN 2 ELSE 1)

C6_Witness ==
    /\ SprintfRan
    /\ \E call \in Tokens :
         /\ ScopedSprintfCall(call)
         /\ IsNVariant(call)
         /\ \E j \in Tokens : BareDestination(call, j) /\ ArgumentIndex(call, j) = 4
         /\ \E i \in ReportedInCall(call) : ArgumentIndex(call, reported[i].tok) = 4

\* a second reachable case of C6: the format argument itself is the bare
\* destination and is reported
C6_WitnessFormat ==
    /\ SprintfRan
    /\ \E call \in Tokens :
         /\ ScopedSprintfCall(call)
         /\ ~IsNVariant(call)
         /\ \E i \in ReportedInCall(call) : ArgumentIndex(call, reported[i].tok) = 2

IncorrectRan == check = "checkIncorrectStringCompare" /\ settings.warning

\* ". substr ( pos , N )" in a function scope, N a numeric literal
ScopedSubstrCall(tok) == InSomeScope(tok) /\ MatchSubstr(tok)

\* N
SubstrLength(tok) == ToLongNumber(StrAt(LinkAt(tok, 2), -1))

\* the "==" or "!=" before the expression substr is called on, when a literal
\* not preceded by "+" stands before it
LeftCompare(tok) == TokPrev(StatementStart(TokPrev(tok)))

\* the "==" or "!=" after the call
RightCompare(tok) == TokNext(LinkAt(tok, 2))

ComparedWithLiteral(tok) ==
    LeftLiteralCompared(LeftCompare(tok)) \/ RightLiteralCompared(RightCompare(tok))

\* L: the length of the literal the call is compared with (the left one when
\* there is one on each side)
ComparedLength(tok) ==
    IF LeftLiteralCompared(LeftCompare(tok))
    THEN GetStrLength(TokPrev(LeftCompare(tok)))
    ELSE GetStrLength(TokNext(RightCompare(tok)))

\* tok lies between the parentheses of a call that the scan steps over as
\* assert-like
InsideSkippedAssert(tok) ==
    \E a \in Tokens :
        InSomeScope(a) /\ AssertSkip(a) /\ a + 1 < tok /\ tok < Link(a + 1)

\* C7 as stated: a substr call with a numeric length N that is compared by
\* == or != with a string literal of length L gets an incorrectStringCompare
\* finding if and only if N differs from L.
C7_MismatchReported ==
    IncorrectRan =>
        \A tok \in Tokens :
            (ScopedSubstrCall(tok) /\ ComparedWithLiteral(tok)) =>
                (ReportedAt("incorrectStringCompare", tok + 1) # {}
                    <=> SubstrLength(tok) # ComparedLength(tok))

\* C7 as amended: the same, for the calls that do not lie inside an
\* assert-like call that the scan steps over; such a call gets one finding
\* when N differs from L and none when it does not, and a call inside a
\* stepped-over assert gets none.
C7_MismatchReportedOutsideAssert ==
    IncorrectRan =>
        \A tok \in Tokens :
            (ScopedSubstrCall(tok) /\ ComparedWithLiteral(tok)) =>
                IF InsideSkippedAssert(tok)
                THEN ReportedAt("incorrectStringCompare", tok + 1) = {}
                ELSE Cardinality(ReportedAt("incorrectStringCompare", tok + 1))
                        = IF SubstrLength(tok) # ComparedLength(tok) THEN 1 ELSE 0

C7_Witness ==
    /\ IncorrectRan
    /\ \E tok \in Tokens :
         /\ ScopedSubstrCall(tok) /\ ComparedWithLiteral(tok)
         /\ ~InsideSkippedAssert(tok)
         /\ SubstrLength(tok) > ComparedLength(tok)
         /\ ReportedAt("incorrectStringCompare", tok + 1) # {}

\* a second reachable case of C7: equal lengths, nothing reported
C7_WitnessEqual ==
    /\ IncorrectRan
    /\ \E tok \in Tokens :
         /\ ScopedSubstrCall(tok) /\ ComparedWithLiteral(tok)
         /\ ~InsideSkippedAssert(tok)
         /\ SubstrLength(tok) = ComparedLength(tok)
         /\ reported = <<>>

GatedIds == {"staticStringCompare", "stringCompare", "literalWithCharPtrCompare",
             "charLiteralWithCharPtrCompare", "incorrectStringCompare",
             "incorrectStringBooleanError"}

\* C8: with the "warning" category disabled no finding of the gated rules is
\* reported, whatever the tokens.
C8_NothingWhenWarningDisabled ==
    ~settings.warning =>
        \A i \in DOMAIN reported : reported[i].id \notin GatedIds

C8_Witness ==
    /\ ~settings.warning
    /\ check = "checkIncorrectStringCompare"
    /\ IncorrectStringCompareFrom(1) # <<>>

\* further reachable cases of C8: the other two gated checks ran on tokens
\* they would report on
C8_WitnessAlways ==
    /\ ~settings.warning
    /\ check = "checkAlwaysTrueOrFalseStringCompare"
    /\ AlwaysTrueOrFalseScan(1) # <<>>

C8_WitnessSuspicious ==
    /\ ~settings.warning
    /\ check = "checkSuspiciousStringCompare"
    /\ SuspiciousFrom(1) # <<>>

\* the literal as shown: its first n characters and ".."
Truncated(str, n) == SubSeq(str, 1, n) \o s_dotdot

\* the stringLiteralWrite findings show a literal value of 15 characters
\* whole and one of 16 as its first 13 characters and ".."
WriteDisplayAtThreshold ==
    \A i \in DOMAIN reported :
        (reported[i].id = "stringLiteralWrite" /\ reported[i].aux # 0) =>
            LET value == StrValue(Str(reported[i].aux)) IN
            /\ Len(value) = 15 => reported[i].string1 = value
            /\ Len(value) = 16 => reported[i].string1 = Truncated(value, 13)

\* the findings of a literal comparison L1 ==|!= L2, whose first string is
\* the text of the token after the anchor
LiteralCompareFindings ==
    {i \in DOMAIN reported :
        /\ reported[i].id = "staticStringCompare"
        /\ MatchLiteralCompare(reported[i].tok)
        /\ ~MatchCompareCall(reported[i].tok)
        /\ ~MatchQStringCompare(reported[i].tok)}

\* C9 as stated: a string of exactly the threshold length (15 for
\* stringLiteralWriteError, 10 for alwaysTrueFalseStringCompareError) is shown
\* whole, and one a character longer is shown as its first 13, resp. 8,
\* characters and "..".
C9_ThresholdShownWhole ==
    /\ WriteDisplayAtThreshold
    /\ \A i \in LiteralCompareFindings :
           LET str1 == StrAt(reported[i].tok, 1) IN
           /\ Len(str1) = 10 => reported[i].string1 = str1
           /\ Len(str1) = 11 => reported[i].string1 = Truncated(str1, 8)

\* C9 as amended: stringLiteralWriteError shows a value of 15 characters
\* whole and one of 16 truncated to 13 and ".."; alwaysTrueFalseStringCompareError
\* shows a string of 9 characters whole and truncates one of exactly 10 (and
\* one of 11) to its first 8 characters and "..".
C9_ThresholdDisplay ==
    /\ WriteDisplayAtThreshold
    /\ \A i \in LiteralCompareFindings :
           LET str1 == StrAt(reported[i].tok, 1) IN
           /\ Len(str1) = 9 => reported[i].string1 = str1
           /\ Len(str1) = 10 => reported[i].string1 = Truncated(str1, 8)
           /\ Len(str1) = 11 => reported[i].string1 = Truncated(str1, 8)

C9_Witness ==
    \E i \in LiteralCompareFindings :
        /\ Len(StrAt(reported[i].tok, 1)) = 10
        /\ reported[i].string1 = Truncated(StrAt(reported[i].tok, 1), 8)

\* further reachable cases of C9: a written literal of 15 and of 16 characters
C9_WitnessWrite15 ==
    \E i \in DOMAIN reported :
        /\ reported[i].id = "stringLiteralWrite" /\ reported[i].aux # 0
        /\ Len(StrValue(Str(reported[i].aux))) = 15

C9_WitnessWrite16 ==
    \E i \in DOMAIN reported :
        /\ reported[i].id = "stringLiteralWrite" /\ reported[i].aux # 0
        /\ Len(reported[i].string1) = 15
        /\ Len(StrValue(Str(reported[i].aux))) = 16

\* str ends in suffix
EndsIn(str, suffix) ==
    /\ Len(str) >= Len(suffix)
    /\ SubSeq(str, Len(str) - Len(suffix) + 1, Len(str)) = suffix

\* a call in a function scope whose name ends in assert or ASSERT
ScopedAssertCall(call) ==
    /\ InSomeScope(call)
    /\ IsName(call) /\ StrIs(TokAt(call, 1), <<"(">>)
    /\ (EndsIn(Str(call), s_assert) \/ EndsIn(Str(call), s_ASSERT))

\* j is a string literal between the parentheses of the call and an operand
\* of "&&"
AndOperandIn(call, j) ==
    /\ call + 1 < j /\ j < Link(call + 1)
    /\ IsStr(j)
    /\ (StrIs(TokPrev(j), s_andand) \/ StrIs(TokNext(j), s_andand))

\* the call has a string literal as first or as last operand of "&&"
LiteralFirstOrLast(call) ==
    \/ AndOperandIn(call, call + 2) /\ StrIs(TokAt(call, 3), s_andand)
    \/ AndOperandIn(call, Link(call + 1) - 1) /\ StrIs(TokAt(Link(call + 1), -2), s_andand)

\* C11: after checkIncorrectStringCompare, no incorrectStringBooleanError is
\* anchored at a string literal that is an operand of "&&" inside a call
\* whose name ends in assert or ASSERT, whatever the literal's position
\* among the operands and whatever precedes the suffix in the name.
C11_NoBooleanErrorInAssert ==
    IncorrectRan =>
        \A call \in Tokens :
            ScopedAssertCall(call) =>
                \A j \in Tokens :
                    AndOperandIn(call, j) =>
                        ReportedAt("incorrectStringBooleanError", j) = {}

\* What does hold of C11: when the first place "assert" (or "ASSERT") occurs in
\* the name is its last six characters and a literal is the first or the
\* last operand, nothing is reported between the call's parentheses.
C11_SkippedWhenFirstOrLast ==
    IncorrectRan =>
        \A call \in Tokens :
            (ScopedAssertCall(call) /\ AssertName(Str(call)) /\ LiteralFirstOrLast(call)) =>
                \A i \in DOMAIN reported :
                    ~(call + 1 < reported[i].tok /\ reported[i].tok < Link(call + 1))

\* the literal is a middle operand only, and is reported
C11_MiddleOperandReported ==
    /\ IncorrectRan
    /\ \E call \in Tokens :
         /\ ScopedAssertCall(call) /\ AssertName(Str(call))
         /\ ~LiteralFirstOrLast(call)
         /\ \E j \in Tokens :
              AndOperandIn(call, j) /\ ReportedAt("incorrectStringBooleanError", j) # {}

\* the name ends in assert after an earlier "assert", the literal is the
\* first or last operand, and is reported
C11_RepeatedSuffixReported ==
    /\ IncorrectRan
    /\ \E call \in Tokens :
         /\ ScopedAssertCall(call) /\ ~AssertName(Str(call))
         /\ LiteralFirstOrLast(call)
         /\ \E j \in Tokens :
              AndOperandIn(call, j) /\ ReportedAt("incorrectStringBooleanError", j) # {}

====
